---- MODULE Spec2Model ----
(***************************************************************************)
(* Connection supervision of prometheus-dyson (src/main.py):               *)
(* DeviceWrapper (connect / retry timer / poll timer / disconnect) and     *)
(* ConnectionManager (startup, discovery callback, message dispatch        *)
(* callback).  Every Python thread is a record in the bag `threads`; a     *)
(* threading.Timer is a thread whose pc is "pending" until it fires.  One  *)
(* action is one statement that touches shared state, so that the          *)
(* interleavings the interpreter allows between statements are all there.  *)
(*                                                                         *)
(* libdyson is the environment.  What the model takes from it:             *)
(*   connect(host)   blocks; either succeeds (is_connected becomes True)   *)
(*                   or raises DysonConnectTimeout (is_connected False);   *)
(*   disconnect()    is_connected becomes False;                           *)
(*   request_environmental_data()  raises AttributeError once the handle   *)
(*                   is torn down; while a disconnect is tearing it down   *)
(*                   the call may also still go out;                       *)
(*   a connection may drop by itself, and listeners are called on the      *)
(*   device's transport thread, one message at a time;                     *)
(*   discovery: register_device keeps a registration until the device is   *)
(*   found (the callback is called once, on the discovery thread) or       *)
(*   discovery is stopped.                                                 *)
(***************************************************************************)
EXTENDS Integers, Sequences, FiniteSets, Bags, TLC

\* ------------------------------------------------------------ bounds
MaxTimers == 2      \* timers (pending or running) alive at once, per device
MaxFaults == 2      \* faults of the transport: lost connections, connect timeouts
MaxReg == 2         \* discovery registrations held at once, per device
MaxCalls == 1       \* connect calls of an outside caller in flight at once

\* ------------------------------------------------- program constants
DefaultRetrySecs == 30          \* connect(..., retry_on_timeout_secs=30)
EnvironmentRefreshSecs == 30    \* DeviceWrapper(..., environment_refresh_secs=30)

None == "None"
NoDev == "-"
Dev == {"A", "B"}
Addresses == {"h1", "h2"}
RetryChoices == {DefaultRetrySecs, 60}
MessageType == {"STATE", "ENVIRONMENTAL", "OTHER"}

VARIABLES
    cfg,          \* the configuration: devices (a list), serial, hosts
    connected,    \* libdyson.is_connected, per device
    transport,    \* a session was opened: the transport thread exists
    listeners,    \* message listeners added to the device's handle
    started,      \* the discovery service is started
    registered,   \* discovery registrations, per device
    threads,      \* every thread and timer, a bag of records
    faultsLeft    \* the environment's budget of transport faults

vars == <<cfg, connected, transport, listeners, started, registered,
          threads, faultsLeft>>

\* ------------------------------------------------------ configuration
\* str.upper() on the serials the configurations use.
Upper(s) ==
    CASE s = "ab1" -> "AB1"
      [] s = "cd2" -> "CD2"
      [] OTHER -> s

\* dict.get: the value, or None.
HostsGet(hosts, k) == IF k \in DOMAIN hosts THEN hosts[k] ELSE None

\* Python truthiness of what dict.get returned: None and '' are false.
Truthy(a) == a # None /\ a # ""

ManualIp(d) == HostsGet(cfg.hosts, Upper(cfg.serial[d]))

HasManualIp(d) == Truthy(ManualIp(d))

NoHosts == [k \in {} |-> ""]

Config(devs, serial, hosts) == [devices |-> devs, serial |-> serial, hosts |-> hosts]

SerialsOne(s) == [d \in Dev |-> IF d = "A" THEN s ELSE "cd2"]

\* One configured device: its serial in either case, the hosts table empty,
\* keyed by the uppercased serial, keyed by the lowercase serial, or with an
\* empty address.
ConfigsOne ==
    { Config(<<"A">>, SerialsOne("ab1"), NoHosts),
      Config(<<"A">>, SerialsOne("ab1"), "AB1" :> "h1"),
      Config(<<"A">>, SerialsOne("ab1"), "ab1" :> "h1"),
      Config(<<"A">>, SerialsOne("AB1"), "AB1" :> "") }

Configured == {cfg.devices[i] : i \in 1..Len(cfg.devices)}

\* ------------------------------------------------------------ threads
\* kind: whose thread; dev: the device it works on; pc: the statement it is at;
\* host, r: the arguments of the connect call it is in; delay: a timer's
\* interval; msg: the message being dispatched; i: __init__'s place in the list
\* of devices; log: what the handler it runs has done so far; upd: the flags
\* it gave update_fn.
Thread(kind, dev, pc, host, r, delay, msg, i, log) ==
    [kind |-> kind, dev |-> dev, pc |-> pc, host |-> host, r |-> r,
     delay |-> delay, msg |-> msg, i |-> i, log |-> log, upd |-> <<>>]

MainThread == Thread("main", NoDev, "m_start", None, 0, 0, None, 0, <<>>)
DiscThread == Thread("disc", NoDev, "idle", None, 0, 0, None, 0, <<>>)
DispThread(d) == Thread("disp", d, "idle", None, 0, 0, None, 0, <<>>)
RetryTimer(d, host, delay) == Thread("retry", d, "pending", host, 0, delay, None, 0, <<>>)
PollTimer(d, delay) == Thread("poll", d, "pending", None, 0, delay, None, 0, <<>>)

Ths == BagToSet(threads)
One(t) == SetToBag({t})
Replace(t, u) == (threads (-) One(t)) (+) One(u)
IsTimer(t) == t.kind \in {"retry", "poll"}
\* A thread that ends when its function returns.
Exits(t) == t.kind \in {"retry", "poll", "api"}

RECURSIVE SumCopies(_, _)
SumCopies(b, S) ==
    IF S = {} THEN 0
    ELSE LET x == CHOOSE y \in S : TRUE
         IN CopiesIn(x, b) + SumCopies(b, S \ {x})

TimerCount(d) == SumCopies(threads, {t \in Ths : IsTimer(t) /\ t.dev = d})

\* The bound on timers: thread t, about to start a timer, may do so.
CanSpawn(t) == TimerCount(t.dev) - (IF Exits(t) /\ IsTimer(t) THEN 1 ELSE 0) < MaxTimers

Logged(t, e) == [t EXCEPT !.log = Append(@, e)]
Occurs(log, e) == Cardinality({k \in 1..Len(log) : log[k] = e})

\* ---------------------------------------------------------------- Init
InitWith(configs) ==
    /\ cfg \in configs
    /\ connected = [d \in Dev |-> FALSE]
    /\ transport = [d \in Dev |-> FALSE]
    /\ listeners = [d \in Dev |-> 0]
    /\ started = FALSE
    /\ registered = [d \in Dev |-> 0]
    /\ threads = SetToBag({MainThread, DiscThread}
                          \cup {DispThread(cfg.devices[i]) : i \in 1..Len(cfg.devices)})
    /\ faultsLeft = MaxFaults

Init == InitWith(ConfigsOne)

\* ------------------------------------------- control flow of the callers
\* RouteAdd with the hosts lookup left out: every device goes to discovery.
RouteAdd_AlwaysDiscover(t) == [t EXCEPT !.pc = "a_register"]

\* RouteAdd branching on whether the key is in the hosts table rather than on
\* the truth of the value found.
RouteAdd_KeyPresent(t) ==
    IF ManualIp(t.dev) # None
    THEN [Logged(t, "connect") EXCEPT !.pc = "c_check", !.host = ManualIp(t.dev),
                                      !.r = DefaultRetrySecs]
    ELSE [t EXCEPT !.pc = "a_register"]

\* _add_device, lines 137-146: the hosts lookup and the branch it takes; the
\* thread is left at the call of device.connect(manual_ip), or before
\* register_device.
RouteAdd(t) ==
    IF HasManualIp(t.dev)
    THEN [Logged(t, "connect") EXCEPT !.pc = "c_check", !.host = ManualIp(t.dev),
                                      !.r = DefaultRetrySecs]
    ELSE [t EXCEPT !.pc = "a_register"]

\* EnterAdd with the re-add of a device going to discovery whatever the hosts
\* table says.
EnterAdd_ReAddDiscovers(t, add_listener) ==
    IF add_listener THEN [t EXCEPT !.pc = "a_listener"] ELSE [t EXCEPT !.pc = "a_register"]

\* _add_device, line 133: add_listener is True for the call of __init__ and
\* False for the call of _device_callback.
EnterAdd(t, add_listener) ==
    IF add_listener THEN [t EXCEPT !.pc = "a_listener"] ELSE RouteAdd(t)

\* __init__, lines 119-120: the next device of the list, or the end of the
\* constructor (main then sleeps forever).
NextDevice(t) ==
    IF t.i < Len(cfg.devices)
    THEN EnterAdd([MainThread EXCEPT !.i = t.i + 1, !.dev = cfg.devices[t.i + 1]], TRUE)
    ELSE [MainThread EXCEPT !.pc = "m_sleep", !.i = t.i]

\* The thread once _add_device or connect has returned to it.
Returned(t) ==
    CASE t.kind = "main" -> NextDevice(t)
      [] t.kind = "disp" -> [t EXCEPT !.pc = "dc_done"]
      [] OTHER -> DiscThread

\* The bag of threads once t, now u, has returned from connect or _add_device.
Resume(t, u) ==
    IF Exits(t) THEN threads (-) One(t) ELSE Replace(t, Returned(u))

\* ---------------------------------------------- DeviceWrapper.connect
\* Checked without the is_connected test of line 62.
Checked_NoGuard(t, u) == Replace(t, [u EXCEPT !.pc = "c_open"])

\* The bag of threads once thread t, which enters connect as u, has done
\* line 62: already connected, log and return; else go on to line 67.
Checked(t, u) ==
    IF connected[u.dev]
    THEN Resume(t, Logged(u, "already"))
    ELSE Replace(t, [u EXCEPT !.pc = "c_open"])

\* line 62: if self.is_connected: log, return.
ConnectCheck(t) ==
    /\ t.pc = "c_check"
    /\ threads' = Checked(t, t)
    /\ UNCHANGED <<cfg, connected, transport, listeners, started, registered,
                   faultsLeft>>

\* line 67: self.libdyson.connect(host) returns.
ConnectOk(t) ==
    /\ t.pc = "c_open"
    /\ connected' = [connected EXCEPT ![t.dev] = TRUE]
    /\ transport' = [transport EXCEPT ![t.dev] = TRUE]
    /\ threads' = Replace(t, [Logged(t, "open") EXCEPT !.pc = "c_refresh"])
    /\ UNCHANGED <<cfg, listeners, started, registered, faultsLeft>>

\* RetryTimerOf with the timer's args lost: the retry has no address.
RetryTimerOf_NoHost(t) == RetryTimer(t.dev, None, t.r)

\* lines 72-73: threading.Timer(retry_on_timeout_secs, self.connect, args=[host]).
RetryTimerOf(t) == RetryTimer(t.dev, t.host, t.r)

\* ConnectTimeout with the handler only logging: no retry timer is started.
ConnectTimeout_NoRetry(t) ==
    /\ t.pc = "c_open"
    /\ faultsLeft > 0
    /\ faultsLeft' = faultsLeft - 1
    /\ connected' = [connected EXCEPT ![t.dev] = FALSE]
    /\ threads' = Resume(t, Logged(t, "timeout"))
    /\ UNCHANGED <<cfg, transport, listeners, started, registered>>

\* lines 67, 69-73: self.libdyson.connect(host) raises DysonConnectTimeout; the
\* handler starts the retry timer and connect returns.
ConnectTimeout(t) ==
    /\ t.pc = "c_open"
    /\ faultsLeft > 0
    /\ CanSpawn(t)
    /\ faultsLeft' = faultsLeft - 1
    /\ connected' = [connected EXCEPT ![t.dev] = FALSE]
    /\ threads' = Resume(t, Logged(t, "timeout")) (+) One(RetryTimerOf(t))
    /\ UNCHANGED <<cfg, transport, listeners, started, registered>>

\* lines 79-82: threading.Timer(self._environment_refresh_secs, self._timer_callback).
RefreshTimerOf(t) == PollTimer(t.dev, EnvironmentRefreshSecs)

\* ConnectRefresh with the call of line 68 left out: connect returns and no
\* poll timer is started.
ConnectRefresh_NoTimer(t) ==
    /\ t.pc = "c_refresh"
    /\ threads' = Resume(t, Logged(t, "poll_timer"))
    /\ UNCHANGED <<cfg, connected, transport, listeners, started, registered,
                   faultsLeft>>

\* lines 68, 79-82: self._refresh_timer() starts the poll timer; connect returns.
ConnectRefresh(t) ==
    /\ t.pc = "c_refresh"
    /\ CanSpawn(t)
    /\ threads' = Resume(t, Logged(t, "poll_timer")) (+) One(RefreshTimerOf(t))
    /\ UNCHANGED <<cfg, connected, transport, listeners, started, registered,
                   faultsLeft>>

\* The retry timer calls self.connect(host): retry_on_timeout_secs is not among
\* the timer's args, so the call takes the default.
RetryCall(t) == [t EXCEPT !.pc = "c_check", !.r = DefaultRetrySecs]

\* A pending retry timer fires: its thread starts and does line 62.
RetryFire(t) ==
    /\ t.kind = "retry" /\ t.pc = "pending"
    /\ threads' = Checked(t, RetryCall(t))
    /\ UNCHANGED <<cfg, connected, transport, listeners, started, registered,
                   faultsLeft>>

\* -------------------------------------- DeviceWrapper._timer_callback
\* PollFire without the is_connected test of line 85.
PollFire_AlwaysRequest(t) ==
    /\ t.kind = "poll" /\ t.pc = "pending"
    /\ threads' = Replace(t, [t EXCEPT !.pc = "p_request"])
    /\ UNCHANGED <<cfg, connected, transport, listeners, started, registered,
                   faultsLeft>>

\* A pending poll timer fires; line 85: if self.is_connected, else line 94.
PollFire(t) ==
    /\ t.kind = "poll" /\ t.pc = "pending"
    /\ threads' = IF connected[t.dev]
                  THEN Replace(t, [t EXCEPT !.pc = "p_request"])
                  ELSE threads (-) One(t)
    /\ UNCHANGED <<cfg, connected, transport, listeners, started, registered,
                   faultsLeft>>

\* lines 89, 92: self.libdyson.request_environmental_data() goes out, then
\* self._refresh_timer() starts the next timer and this one's thread ends.  On
\* a device disconnected since line 85 this is the call racing the teardown.
PollRequest(t) ==
    /\ t.pc = "p_request"
    /\ threads' = Replace(t, RefreshTimerOf(t))
    /\ UNCHANGED <<cfg, connected, transport, listeners, started, registered,
                   faultsLeft>>

\* PollRequestRace with the AttributeError not caught: it ends the timer's
\* thread before line 92.
PollRequestRace_Propagates(t) ==
    /\ t.pc = "p_request"
    /\ ~connected[t.dev]
    /\ threads' = threads (-) One(t)
    /\ UNCHANGED <<cfg, connected, transport, listeners, started, registered,
                   faultsLeft>>

\* lines 89-92: the call raises AttributeError (the handle is torn down), which
\* is caught and logged; self._refresh_timer() starts the next timer all the
\* same.
PollRequestRace(t) ==
    /\ t.pc = "p_request"
    /\ ~connected[t.dev]
    /\ threads' = Replace(t, RefreshTimerOf(t))
    /\ UNCHANGED <<cfg, connected, transport, listeners, started, registered,
                   faultsLeft>>

\* -------------------------------------------------- ConnectionManager
\* __init__, lines 116-117: start_discovery(), then the first device.
MainStart(t) ==
    /\ t.kind = "main" /\ t.pc = "m_start"
    /\ started' = TRUE
    /\ threads' = Replace(t, NextDevice(t))
    /\ UNCHANGED <<cfg, connected, transport, listeners, registered,
                   faultsLeft>>

\* _add_device, lines 133-135: add_message_listener, then the hosts lookup.
AddListener(t) ==
    /\ t.pc = "a_listener"
    /\ listeners' = [listeners EXCEPT ![t.dev] = @ + 1]
    /\ threads' = Replace(t, RouteAdd(Logged(t, "listener")))
    /\ UNCHANGED <<cfg, connected, transport, started, registered,
                   faultsLeft>>

\* _add_device, lines 145-146: register_device; _add_device returns.
AddRegister(t) ==
    /\ t.pc = "a_register"
    /\ registered[t.dev] < MaxReg
    /\ registered' = [registered EXCEPT ![t.dev] = @ + 1]
    /\ threads' = Resume(t, Logged(t, "register"))
    /\ UNCHANGED <<cfg, connected, transport, listeners, started,
                   faultsLeft>>

\* _discovery_callback, lines 149-156: discovery has found registered device d
\* at address a and calls back on its own thread: device.connect(address).
DiscoveryFound(t, d, a) ==
    /\ t.kind = "disc" /\ t.pc = "idle"
    /\ started
    /\ registered[d] > 0
    /\ registered' = [registered EXCEPT ![d] = @ - 1]
    /\ threads' = Replace(t, [t EXCEPT !.dev = d, !.pc = "c_check", !.host = a,
                                       !.r = DefaultRetrySecs])
    /\ UNCHANGED <<cfg, connected, transport, listeners, started,
                   faultsLeft>>

\* _device_callback, lines 159-160: the transport thread of t.dev dispatches
\* message m to the listener, which reads device.is_connected.  The branch of
\* line 160 never reads the message again, so the thread keeps it only on the
\* other branch.
DispatchBegin(t, m) ==
    /\ t.kind = "disp" /\ t.pc = "idle"
    /\ listeners[t.dev] > 0
    /\ transport[t.dev]
    /\ threads' = Replace(t, IF connected[t.dev]
                             THEN [t EXCEPT !.msg = m, !.pc = "dc_update"]
                             ELSE [Logged(t, "not_connected") EXCEPT !.pc = "dc_disconnect"])
    /\ UNCHANGED <<cfg, connected, transport, listeners, started, registered,
                   faultsLeft>>

\* line 163: device.disconnect().
DispatchDisconnect(t) ==
    /\ t.pc = "dc_disconnect"
    /\ connected' = [connected EXCEPT ![t.dev] = FALSE]
    /\ threads' = Replace(t, [Logged(t, "disconnect") EXCEPT !.pc = "dc_stop"])
    /\ UNCHANGED <<cfg, transport, listeners, started, registered,
                   faultsLeft>>

\* DispatchStop with a discovery that keeps its registrations when stopped.
DispatchStop_KeepsRegistrations(t) ==
    /\ t.pc = "dc_stop"
    /\ started' = FALSE
    /\ threads' = Replace(t, [Logged(t, "stop") EXCEPT !.pc = "dc_start"])
    /\ UNCHANGED <<cfg, connected, transport, listeners, registered, faultsLeft>>

\* line 164: self._discovery.stop_discovery(); the registrations go with it.
DispatchStop(t) ==
    /\ t.pc = "dc_stop"
    /\ started' = FALSE
    /\ registered' = [d \in Dev |-> 0]
    /\ threads' = Replace(t, [Logged(t, "stop") EXCEPT !.pc = "dc_start"])
    /\ UNCHANGED <<cfg, connected, transport, listeners, faultsLeft>>

\* DispatchStart with the re-add made as the first add is: add_listener=True.
DispatchStart_AddListener(t) ==
    /\ t.pc = "dc_start"
    /\ started' = TRUE
    /\ threads' = Replace(t, EnterAdd(Logged(t, "start"), TRUE))
    /\ UNCHANGED <<cfg, connected, transport, listeners, registered,
                   faultsLeft>>

\* lines 165-166: start_discovery(), then _add_device(device, add_listener=False).
DispatchStart(t) ==
    /\ t.pc = "dc_start"
    /\ started' = TRUE
    /\ threads' = Replace(t, EnterAdd(Logged(t, "start"), FALSE))
    /\ UNCHANGED <<cfg, connected, transport, listeners, registered,
                   faultsLeft>>

\* lines 169-170: the two flags of a message.
IsState(m) == m = "STATE"

\* is_environ computed as "not a state message".
IsEnviron_NotState(m) == m # "STATE"

IsEnviron(m) == m = "ENVIRONMENTAL"

\* lines 171-172: the arguments of the update_fn call: the device's name and
\* handle (both stand for the device), is_state, is_environmental.
UpdateArgs(t) == <<t.dev, IsState(t.msg), IsEnviron(t.msg)>>

\* DispatchUpdate with the update_fn call left out.
DispatchUpdate_NoCall(t) ==
    /\ t.pc = "dc_update"
    /\ threads' = Replace(t, [t EXCEPT !.pc = "dc_done"])
    /\ UNCHANGED <<cfg, connected, transport, listeners, started, registered,
                   faultsLeft>>

\* lines 171-172: self._update_fn(name, handle, is_state, is_environmental).
DispatchUpdate(t) ==
    /\ t.pc = "dc_update"
    /\ threads' = Replace(t, [Logged(t, "update") EXCEPT !.pc = "dc_done",
                                  !.upd = UpdateArgs(t)])
    /\ UNCHANGED <<cfg, connected, transport, listeners, started, registered,
                   faultsLeft>>

\* lines 167, 172: _device_callback returns to the transport thread.
DispatchReturn(t) ==
    /\ t.pc = "dc_done"
    /\ threads' = Replace(t, DispThread(t.dev))
    /\ UNCHANGED <<cfg, connected, transport, listeners, started, registered,
                   faultsLeft>>

\* ------------------------------------------------------- environment
\* The transport loses the connection: is_connected turns False by itself.
Drop(d) ==
    /\ connected[d]
    /\ faultsLeft > 0
    /\ faultsLeft' = faultsLeft - 1
    /\ connected' = [connected EXCEPT ![d] = FALSE]
    /\ UNCHANGED <<cfg, transport, listeners, started, registered, threads>>

\* ---------------------------------------------------------------- Next
Next ==
    \/ \E t \in Ths : MainStart(t)
    \/ \E t \in Ths : AddListener(t)
    \/ \E t \in Ths : AddRegister(t)
    \/ \E t \in Ths, d \in Configured, a \in Addresses : DiscoveryFound(t, d, a)
    \/ \E t \in Ths : ConnectCheck(t)
    \/ \E t \in Ths : ConnectOk(t)
    \/ \E t \in Ths : ConnectTimeout(t)
    \/ \E t \in Ths : ConnectRefresh(t)
    \/ \E t \in Ths : RetryFire(t)
    \/ \E t \in Ths : PollFire(t)
    \/ \E t \in Ths : PollRequest(t)
    \/ \E t \in Ths : PollRequestRace(t)
    \/ \E t \in Ths, m \in MessageType : DispatchBegin(t, m)
    \/ \E t \in Ths : DispatchDisconnect(t)
    \/ \E t \in Ths : DispatchStop(t)
    \/ \E t \in Ths : DispatchStart(t)
    \/ \E t \in Ths : DispatchUpdate(t)
    \/ \E t \in Ths : DispatchReturn(t)
    \/ \E d \in Configured : Drop(d)

Spec == Init /\ [][Next]_vars

\* ------------------------------------------- DeviceWrapper on its own
\* A caller of the class calls connect(host, retry_on_timeout_secs) on its own
\* thread, with any address and any interval.
ApiThread(d, a, r) == Thread("api", d, "c_check", a, r, 0, None, 0, <<>>)

ApiCalls == SumCopies(threads, {t \in Ths : t.kind = "api"})

ApiConnect(d, a, r) ==
    /\ ApiCalls < MaxCalls
    /\ threads' = threads (+) One(ApiThread(d, a, r))
    /\ UNCHANGED <<cfg, connected, transport, listeners, started, registered,
                   faultsLeft>>

InitApi ==
    /\ cfg = Config(<<"A">>, SerialsOne("ab1"), NoHosts)
    /\ connected = [d \in Dev |-> FALSE]
    /\ transport = [d \in Dev |-> FALSE]
    /\ listeners = [d \in Dev |-> 0]
    /\ started = FALSE
    /\ registered = [d \in Dev |-> 0]
    /\ threads = EmptyBag
    /\ faultsLeft = MaxFaults

NextApi ==
    \/ \E d \in Configured, a \in Addresses, r \in RetryChoices : ApiConnect(d, a, r)
    \/ \E t \in Ths : ConnectCheck(t)
    \/ \E t \in Ths : ConnectOk(t)
    \/ \E t \in Ths : ConnectTimeout(t)
    \/ \E t \in Ths : ConnectRefresh(t)
    \/ \E t \in Ths : RetryFire(t)
    \/ \E t \in Ths : PollFire(t)
    \/ \E t \in Ths : PollRequest(t)
    \/ \E t \in Ths : PollRequestRace(t)
    \/ \E d \in Configured : Drop(d)

SpecApi == InitApi /\ [][NextApi]_vars

\* ------------------------------------------------------------ liveness
\* DeviceWrapper.connect and its retry chain, left to themselves: callers call
\* connect, the transport times out or answers, and once it has connected
\* nothing from outside (a lost connection, a disconnect() call) takes the
\* connection down.  Threads that can run do run, due timers fire, and the
\* transport answers a connect call; the timeouts are MaxFaults at most.
NextLive ==
    \/ \E d \in Configured, r \in RetryChoices : ApiConnect(d, "h1", r)
    \/ \E t \in Ths : ConnectCheck(t)
    \/ \E t \in Ths : ConnectOk(t)
    \/ \E t \in Ths : ConnectTimeout(t)
    \/ \E t \in Ths : ConnectRefresh(t)
    \/ \E t \in Ths : RetryFire(t)
    \/ \E t \in Ths : PollFire(t)
    \/ \E t \in Ths : PollRequest(t)
    \/ \E t \in Ths : PollRequestRace(t)

Fairness ==
    /\ WF_vars(\E t \in Ths : ConnectCheck(t))
    /\ WF_vars(\E t \in Ths : ConnectOk(t))
    /\ WF_vars(\E t \in Ths : ConnectRefresh(t))
    /\ WF_vars(\E t \in Ths : RetryFire(t))
    /\ WF_vars(\E t \in Ths : PollFire(t))
    /\ WF_vars(\E t \in Ths : PollRequest(t) \/ PollRequestRace(t))

SpecLive == InitApi /\ [][NextLive]_vars /\ Fairness

\* ============================================================== claims
\* Poll tasks of device d, pending or running.
PollTasks(d) == SumCopies(threads, {t \in Ths : t.kind = "poll" /\ t.dev = d})

\* Connect attempts of device d that are outstanding: connect calls that are
\* past the check of line 62 and wait for the transport's answer at line 67,
\* and pending retry timers.
ConnectAttempts(d) ==
    SumCopies(threads, {t \in Ths : /\ t.dev = d
                                    /\ \/ t.pc = "c_open"
                                       \/ t.kind = "retry" /\ t.pc = "pending"})

\* The records that are in the bag after the step and were not before it.
Started(x) == CopiesIn(x, threads') > CopiesIn(x, threads)
NewTimers(kind, d) ==
    {x \in BagToSet(threads') : x.kind = kind /\ x.dev = d /\ x.pc = "pending" /\ Started(x)}
NewCopies(kind, d) ==
    SumCopies(threads', NewTimers(kind, d)) - SumCopies(threads, NewTimers(kind, d))

\* C1: in every reachable state each device has at most one active poll task,
\* pending or running.
C1_AtMostOnePollTask == \A d \in Configured : PollTasks(d) <= 1

\* C2: every retry of a connect call that timed out is the call
\* connect(address, r) again: the running retry has the address and the
\* interval r of the call that started its timer, which waited r seconds.
C2_RetryKeepsInterval ==
    \A t \in Ths : (t.kind = "retry" /\ t.pc # "pending") => t.r = t.delay

\* C3: in every reachable state each device has at most one outstanding
\* connect attempt, in-flight connect calls and pending retry timers together.
C3_AtMostOneConnectAttempt == \A d \in Configured : ConnectAttempts(d) <= 1

\* C4: the already-connected check and the session open are atomic: no
\* connect call opens a session on a device that is connected by then.
C4_NoOpenOnConnected ==
    [][\A t \in Ths : ConnectOk(t) => ~connected[t.dev]]_vars

\* The dispatch callbacks that saw the device not connected and have run to
\* their return.
Handled == {t \in Ths : t.kind = "disp" /\ t.pc = "dc_done"
                        /\ Occurs(t.log, "not_connected") = 1}
Before(log, e, f) ==
    \E j, k \in 1..Len(log) : j < k /\ log[j] = e /\ log[k] = f
OneRestart(log) ==
    /\ Occurs(log, "disconnect") = 1
    /\ Occurs(log, "stop") = 1
    /\ Occurs(log, "start") = 1
    /\ Before(log, "disconnect", "stop")
    /\ Before(log, "stop", "start")
    /\ Occurs(log, "listener") = 0
    /\ Occurs(log, "update") = 0

\* C5 as claimed: every dispatch callback that sees the device not connected
\* does one disconnect, one discovery restart and one re-registration of the
\* device with discovery, with a host override or without.
C5_AlwaysReRegisters ==
    \A t \in Handled : OneRestart(t.log) /\ Occurs(t.log, "register") = 1

\* C5 as amended: every dispatch callback that sees the device not connected
\* does one disconnect and one discovery restart (stop, then start); then a
\* device without a usable host override is registered with discovery once
\* and not connected, and a device with one gets one direct connect call to
\* the override address and no registration.
C5_DisconnectConvergence ==
    \A t \in Handled :
        /\ OneRestart(t.log)
        /\ IF HasManualIp(t.dev)
           THEN /\ Occurs(t.log, "register") = 0
                /\ Occurs(t.log, "connect") = 1
                /\ t.host = ManualIp(t.dev)
           ELSE /\ Occurs(t.log, "register") = 1
                /\ Occurs(t.log, "connect") = 0

C5_Witness ==
    \E t \in Handled : ~HasManualIp(t.dev) /\ Occurs(t.log, "register") = 1

\* C6: a connect call that finds the device connected is a no-op: the
\* connection state stays, no session is opened (no call goes on to line 67
\* or 68), no poll timer and no retry timer is started.
C6_ConnectNoop ==
    [][\A t \in Ths :
          ((ConnectCheck(t) \/ RetryFire(t)) /\ connected[t.dev])
          => /\ connected' = connected
             /\ transport' = transport
             /\ \A x \in BagToSet(threads') :
                   Started(x) => ~IsTimer(x) /\ x.pc \notin {"c_open", "c_refresh"}
      ]_vars

C6_Witness ==
    \E t \in Ths : /\ t.kind = "disp" /\ t.pc = "dc_done"
                   /\ Occurs(t.log, "already") = 1
                   /\ connected[t.dev]

\* Thread t, inside connect before the step, is back in its caller after it: a
\* timer's thread has ended, the discovery thread is idle, the dispatch
\* callback is at its return, __init__ is at the next device or done.
AtReturn(t) ==
    IF Exits(t) THEN CopiesIn(t, threads') < CopiesIn(t, threads)
    ELSE \E u \in BagToSet(threads') :
            /\ u.kind = t.kind
            /\ \/ t.kind = "disp" /\ u.dev = t.dev /\ u.pc = "dc_done"
               \/ t.kind = "disc" /\ u.pc = "idle"
               \/ t.kind = "main" /\ \/ u.pc = "m_sleep" /\ t.i = Len(cfg.devices)
                                     \/ u.i = t.i + 1

\* C7: a connect attempt that times out returns to its caller and starts
\* exactly one retry timer, for the same device and the same address, and no
\* poll timer; a successful attempt starts no retry timer.
C7_TimeoutRetriesOnce ==
    [][\A t \in Ths :
          /\ ConnectTimeout(t)
             => /\ NewCopies("retry", t.dev) = 1
                /\ \A x \in NewTimers("retry", t.dev) : x.host = t.host
                /\ NewCopies("poll", t.dev) = 0
                /\ AtReturn(t)
          /\ (ConnectOk(t) \/ ConnectRefresh(t)) => NewCopies("retry", t.dev) = 0
      ]_vars

C7_Witness ==
    \E t \in Ths : /\ t.kind = "disp" /\ t.pc = "dc_done"
                   /\ Occurs(t.log, "timeout") = 1
                   /\ \E x \in Ths : x.kind = "retry" /\ x.pc = "pending"
                                     /\ x.dev = t.dev /\ x.host = t.host

\* C8: once a connect call has found the device not connected and gone on to
\* open a session, the device is eventually connected with a poll task active.
C8_EventuallyConnected ==
    \A d \in Dev :
        (\E t \in Ths : t.dev = d /\ t.pc = "c_open")
        ~> (connected[d] /\ PollTasks(d) > 0)

C8_Witness ==
    \E d \in Configured :
        /\ connected[d] /\ PollTasks(d) > 0
        /\ faultsLeft < MaxFaults
        /\ \A t \in Ths : t.dev = d => t.pc \notin {"c_check", "c_open", "c_refresh"}

\* C9 as claimed: in every reachable state a device has an active poll task
\* if and only if it is connected.
C9_PollTaskIffConnected ==
    \A d \in Configured : (PollTasks(d) > 0) <=> connected[d]

\* C9 as amended: a connected device has an active poll task, or a connect
\* call that has just succeeded and is about to start one; every successful
\* connect starts one poll task and a timed-out connect starts none; a poll
\* task that is pending when the device disconnects stays until it fires, and
\* one that fires on a disconnected device ends and starts no other.
C9_PollTaskFollowsConnect ==
    /\ [](\A d \in Configured :
            connected[d] => \/ PollTasks(d) > 0
                            \/ \E t \in Ths : t.dev = d /\ t.pc = "c_refresh")
    /\ [][\A t \in Ths :
            /\ ConnectRefresh(t) => PollTasks(t.dev)' = PollTasks(t.dev) + 1
            /\ ConnectTimeout(t) => PollTasks(t.dev)' = PollTasks(t.dev)
            /\ (PollFire(t) /\ ~connected[t.dev])
                  => PollTasks(t.dev)' = PollTasks(t.dev) - 1
         ]_vars
    /\ [][\A d \in Configured :
            PollTasks(d)' < PollTasks(d)
            => \E t \in Ths : t.dev = d /\ PollFire(t) /\ ~connected[d]
         ]_vars

C9_Witness ==
    \E d \in Configured : ~connected[d] /\ PollTasks(d) > 0 /\ transport[d]

\* C10: each firing of the poll task on a connected device makes one
\* request_environmental_data call and starts one next timer of
\* environment_refresh_secs, and no request_environmental_data call is made
\* for a device that is disconnected.
C10_NoRequestOnceDisconnected ==
    [][\A t \in Ths :
          (PollRequest(t) \/ PollRequestRace(t))
          => /\ connected[t.dev]
             /\ NewCopies("poll", t.dev) = 1
             /\ \A x \in NewTimers("poll", t.dev) : x.delay = EnvironmentRefreshSecs
      ]_vars

\* The dispatch callbacks that have run to their return.
Dispatched == {t \in Ths : t.kind = "disp" /\ t.pc = "dc_done"}

\* C11: a dispatch callback that sees the device connected calls update_fn
\* exactly once, for that device; one that sees it not connected never calls
\* it, at its return or on the way there.
C11_UpdateOncePerMessage ==
    /\ \A t \in Dispatched :
          IF Occurs(t.log, "not_connected") = 0
          THEN Occurs(t.log, "update") = 1 /\ Len(t.upd) = 3 /\ t.upd[1] = t.dev
          ELSE Occurs(t.log, "update") = 0 /\ t.upd = <<>>
    /\ \A t \in Ths :
          Occurs(t.log, "not_connected") > 0 => Occurs(t.log, "update") = 0 /\ t.upd = <<>>

C11_Witness ==
    /\ \E t \in Dispatched : Occurs(t.log, "update") = 1
    /\ \E d \in Configured : ~connected[d]

\* C12: the flags given to update_fn are (TRUE, FALSE) for a state message,
\* (FALSE, TRUE) for an environmental message, (FALSE, FALSE) for any other
\* kind, and never both TRUE.
C12_MessageClassification ==
    \A t \in Dispatched :
        Occurs(t.log, "update") = 1
        => /\ t.msg = "STATE" => t.upd[2] = TRUE /\ t.upd[3] = FALSE
           /\ t.msg = "ENVIRONMENTAL" => t.upd[2] = FALSE /\ t.upd[3] = TRUE
           /\ t.msg \notin {"STATE", "ENVIRONMENTAL"} => t.upd[2] = FALSE /\ t.upd[3] = FALSE
           /\ ~(t.upd[2] /\ t.upd[3])

C12_Witness ==
    \E t \in Dispatched : Occurs(t.log, "update") = 1 /\ t.msg = "OTHER"

\* ------------------------------------------------------------ startup
InConnect(t) == t.pc \in {"c_check", "c_open", "c_refresh"}

InTable(d) == Upper(cfg.serial[d]) \in DOMAIN cfg.hosts

AtStartup == {t \in Ths : t.kind = "main" /\ t.dev # NoDev}

\* C13 as claimed: at startup a device whose uppercased serial is a key of the
\* hosts table is connected to directly and not registered with discovery,
\* and any other device is registered and not connected to.
C13_KeyDecidesPath ==
    \A t \in AtStartup :
        /\ t.pc = "a_register" => ~InTable(t.dev)
        /\ InConnect(t) => InTable(t.dev)

\* C13 as amended: at startup every configured device takes exactly one of
\* two paths: with a non-empty address under its uppercased serial in the
\* hosts table, connect is called with that address and the device is not
\* registered with discovery; otherwise (no entry, or an empty address) it is
\* registered once and connect is called for it only from the discovery
\* callback or from the retry of such a call.
C13_StartupPath ==
    /\ [](\A t \in AtStartup :
            /\ t.pc = "a_register" => ~HasManualIp(t.dev)
            /\ InConnect(t) => HasManualIp(t.dev) /\ t.host = ManualIp(t.dev))
    /\ [](\A t \in Ths :
            (t.dev \in Configured /\ InConnect(t) /\ ~HasManualIp(t.dev))
                => t.kind \in {"disc", "retry"})
    /\ [][\A t \in AtStartup :
            /\ AddListener(t)
               => /\ registered' = registered
                  /\ \E u \in AtStartup' :
                        /\ u.dev = t.dev
                        /\ u.pc = IF HasManualIp(t.dev) THEN "c_check" ELSE "a_register"
            /\ AddRegister(t)
               => /\ registered'[t.dev] = registered[t.dev] + 1
                  /\ \A u \in AtStartup' : u.dev # t.dev \/ u.pc = "a_listener"
         ]_vars

C13_Witness ==
    /\ \E t \in Ths : t.kind = "main" /\ t.pc = "m_sleep"
    /\ InTable("A") /\ ~HasManualIp("A")
    /\ registered["A"] = 1 /\ ~transport["A"]

\* __init__ has done line 135 for the k-th device of the list.
ListenerAdded(k) ==
    \E t \in Ths : /\ t.kind = "main"
                   /\ t.i > k \/ (t.i = k /\ t.pc # "a_listener")

\* __init__ is through with the k-th device of the list.
FirstAddDone(k) ==
    \E t \in Ths : /\ t.kind = "main"
                   /\ t.i > k \/ (t.i = k /\ t.pc = "m_sleep")

\* C15: every device has exactly one message listener from the moment
\* __init__ adds it, whatever dispatches, disconnect handling and re-adds
\* follow, and none before; a re-add after a disconnect adds no listener.
C15_OneListener ==
    /\ \A k \in 1..Len(cfg.devices) :
          listeners[cfg.devices[k]] = IF ListenerAdded(k) THEN 1 ELSE 0
    /\ \A t \in Handled : Occurs(t.log, "listener") = 0

C15_Witness ==
    \E t \in Handled : /\ listeners[t.dev] = 1
                       /\ Occurs(t.log, "register") + Occurs(t.log, "connect") = 1

\* C16 as claimed: once __init__ has added a device that is managed through
\* discovery, the device has exactly one discovery registration at any time.
C16_ExactlyOneRegistration ==
    \A k \in 1..Len(cfg.devices) :
        (FirstAddDone(k) /\ ~HasManualIp(cfg.devices[k]))
            => registered[cfg.devices[k]] = 1

\* C16 as amended: a device never has two discovery registrations, however
\* many messages are dispatched for it while it is not connected: every
\* register_device call is made when the device has none and leaves it with
\* exactly one (and between a stop_discovery and that call it has none).
C16_AtMostOneRegistration ==
    /\ [](\A d \in Configured : registered[d] <= 1)
    /\ [][\A t \in Ths :
            /\ AddRegister(t)
               => registered[t.dev] = 0 /\ registered'[t.dev] = 1
            /\ DispatchStop(t) => registered'[t.dev] = 0
         ]_vars

\* A later disconnect handling is about to stop discovery while the
\* registration made by an earlier one is still active.
C16_Witness ==
    \E t \in Ths : /\ t.kind = "disp" /\ t.pc = "dc_stop"
                   /\ registered[t.dev] = 1 /\ transport[t.dev]

\* Thread t ends with the step.
Ended(t) == CopiesIn(t, threads') = CopiesIn(t, threads) - 1

\* The poll tasks of device d that the step has started or moved on.
NewPollTasks(d) == {x \in BagToSet(threads') : x.kind = "poll" /\ x.dev = d /\ Started(x)}

\* C17: when the poll task has fired on a connected device and its
\* request_environmental_data call fails on the torn-down handle, the poll
\* task ends as usual: it has started exactly one next timer, of
\* environment_refresh_secs, and nothing else has changed: no retry timer, no
\* change of the connection state or of discovery.
C17_RaceStillReschedules ==
    [][\A t \in Ths :
          PollRequestRace(t)
          => /\ Ended(t)
             /\ NewCopies("poll", t.dev) = 1
             /\ \A x \in NewPollTasks(t.dev) :
                    x.pc = "pending" /\ x.delay = EnvironmentRefreshSecs
             /\ PollTasks(t.dev)' = PollTasks(t.dev)
             /\ NewCopies("retry", t.dev) = 0
             /\ UNCHANGED <<connected, transport, listeners, started, registered>>
      ]_vars

C17_Witness ==
    \E t \in Ths : /\ t.kind = "poll" /\ t.pc = "p_request"
                   /\ ~connected[t.dev] /\ transport[t.dev]

\* C18: a poll task that fires on a device that is not connected ends there:
\* it goes on to no request and starts no timer; and the number of a device's
\* poll tasks grows only by the timer that a successful connect starts at
\* line 68.
C18_PollChainEnds ==
    /\ [][\A t \in Ths :
            (PollFire(t) /\ ~connected[t.dev])
            => Ended(t) /\ NewPollTasks(t.dev) = {}
         ]_vars
    /\ [][\A d \in Configured :
            PollTasks(d)' > PollTasks(d)
            => /\ PollTasks(d)' = PollTasks(d) + 1
               /\ \E t \in Ths : /\ t.dev = d /\ ConnectRefresh(t)
                                 /\ Occurs(t.log, "open") = 1
         ]_vars

\* The device's poll chain has ended: it was connected once, is not now, and
\* has no poll task left and no connect call about to start one.
C18_Witness ==
    \E d \in Configured :
        /\ transport[d] /\ ~connected[d] /\ PollTasks(d) = 0
        /\ \A t \in Ths : ~(t.dev = d /\ t.pc = "c_refresh")

\* C19 as claimed: a device whose uppercased serial is a key of the hosts
\* table is never registered with discovery.
C19_InTableNeverRegistered ==
    \A d \in Configured : InTable(d) => registered[d] = 0

\* C19 as amended: a device with a non-empty address under its uppercased
\* serial in the hosts table is never registered with discovery, nor about
\* to be: every connect call for it, at startup, on a re-add after a
\* disconnect and on a retry, is made with that address and never by the
\* discovery callback.
C19_OverrideNeverRegistered ==
    /\ [](\A d \in Configured :
            HasManualIp(d)
            => /\ registered[d] = 0
               /\ \A t \in Ths :
                     t.dev = d
                     => /\ t.pc # "a_register"
                        /\ t.kind # "disc"
                        /\ (InConnect(t) \/ t.kind = "retry") => t.host = ManualIp(d))
    /\ [][\A t \in Ths :
            (DispatchStart(t) /\ HasManualIp(t.dev))
            => \E u \in BagToSet(threads') :
                  /\ u.kind = "disp" /\ u.dev = t.dev /\ u.pc = "c_check"
                  /\ u.host = ManualIp(t.dev)
         ]_vars

C19_Witness ==
    \E t \in Handled : /\ HasManualIp(t.dev)
                       /\ Occurs(t.log, "connect") = 1
                       /\ registered[t.dev] = 0

\* ---------------------------------------------------- two devices
\* Two configured devices, both found by discovery.
ConfigsFleet == { Config(<<"A", "B">>, SerialsOne("ab1"), NoHosts) }

InitFleet == InitWith(ConfigsFleet)

\* The steps of Next; discovery reports one address and the transport
\* dispatches one kind of message, neither of which the discovery service
\* depends on.
NextFleet ==
    \/ \E t \in Ths : MainStart(t)
    \/ \E t \in Ths : AddListener(t)
    \/ \E t \in Ths : AddRegister(t)
    \/ \E t \in Ths, d \in Configured : DiscoveryFound(t, d, "h1")
    \/ \E t \in Ths : ConnectCheck(t)
    \/ \E t \in Ths : ConnectOk(t)
    \/ \E t \in Ths : ConnectTimeout(t)
    \/ \E t \in Ths : ConnectRefresh(t)
    \/ \E t \in Ths : RetryFire(t)
    \/ \E t \in Ths : PollFire(t)
    \/ \E t \in Ths : PollRequest(t)
    \/ \E t \in Ths : PollRequestRace(t)
    \/ \E t \in Ths : DispatchBegin(t, "STATE")
    \/ \E t \in Ths : DispatchDisconnect(t)
    \/ \E t \in Ths : DispatchStop(t)
    \/ \E t \in Ths : DispatchStart(t)
    \/ \E t \in Ths : DispatchUpdate(t)
    \/ \E t \in Ths : DispatchReturn(t)
    \/ \E d \in Configured : Drop(d)

SpecFleet == InitFleet /\ [][NextFleet]_vars

\* A disconnect handling that has stopped discovery and has not yet
\* registered its device again.
InRestart(u) == u.kind = "disp" /\ u.pc \in {"dc_start", "a_register"}

\* C14: the disconnect handling of one device never acts on the shared
\* discovery service (stop, start, register) while the handling of another
\* device is half-way through its own restart of it, so neither sees the
\* other's restart partly done.
C14_RestartsDoNotInterleave ==
    [][\A t \in Ths :
          (t.kind = "disp" /\ (DispatchStop(t) \/ DispatchStart(t) \/ AddRegister(t)))
          => ~ \E u \in Ths : u.dev # t.dev /\ InRestart(u)
      ]_vars

\* C20: on the shared discovery service start and stop alternate, beginning
\* with start (start is called on a stopped service, stop on a started one),
\* and register_device is called on a started service only.
C20_StartStopAlternate ==
    [][\A t \in Ths :
          /\ (MainStart(t) \/ DispatchStart(t)) => ~started
          /\ DispatchStop(t) => started
          /\ AddRegister(t) => started
      ]_vars

====
